---------------------------- MODULE Spec2Model ----------------------------
(***************************************************************************)
(* Model of JascoConverter (src/jasco2txt_gui.py): the format dispatcher   *)
(* read_jws_file, the text-likelihood classifier _is_text_file, the        *)
(* delimited-text parser _parse_as_text and the converter convert_to_txt.  *)
(* A second specification, GuiSpec, models the file list and the worker   *)
(* thread of JascoConverterGUI.                                            *)
(*                                                                         *)
(* Representation.  A string is a sequence of character codes (Unicode     *)
(* code points); a byte string is a sequence of integers 0..255.  A        *)
(* decoded number is a pair <<tag, n>>:                                    *)
(*   <<"dec", n>>  the decimal n / Scale, produced by float() on text;     *)
(*   <<"f32", w>>  the IEEE-754 binary32 value whose bit pattern is the    *)
(*                 two's-complement integer w,                             *)
(*                 produced by struct.unpack('<f', ...).                   *)
(***************************************************************************)
EXTENDS Integers, Sequences, FiniteSets, TLC

VARIABLES
    file,         \* the input file: its path, its bytes, its container
    env,          \* olefile installed, output directory, output encoding
    pc,           \* the position in convert_to_txt / read_jws_file
    inTry,        \* the text parser was called inside the try block
    textRuns,     \* number of calls of _parse_as_text
    textFails,    \* number of calls of _parse_as_text that raised
    oleFailed,    \* the signature check failed or the container code raised
    mode,         \* the binary extraction mode that ran
    candidate,    \* the points the binary extraction decoded
    readResult,   \* what read_jws_file returned or raised
    data_points,  \* data_points of convert_to_txt
    header,       \* header of convert_to_txt
    out,          \* the file at output_path
    result,       \* what convert_to_txt returns
    selected_files,          \* JascoConverterGUI.selected_files
    convert_button,          \* state of the Convert button
    ui,                      \* the handler the main thread is running
    wpc,                     \* the position of the worker thread in convert_files
    iter_index,              \* position of the list iterator of convert_files
    input_file,              \* input_file of convert_files
    total_files,             \* total_files of convert_files
    successful_conversions,  \* successful_conversions of convert_files
    failed_conversions,      \* failed_conversions of convert_files
    batch,                   \* selected_files when start_conversion ran
    calls                    \* the files convert_to_txt was called for, in order

\* the state of one call of convert_to_txt
convVars == <<file, env, pc, inTry, textRuns, textFails, oleFailed, mode,
              candidate, readResult, data_points, header, out, result>>

\* the state of the window and of its worker thread
guiVars == <<selected_files, convert_button, ui, wpc, iter_index, input_file, total_files,
             successful_conversions, failed_conversions, batch, calls>>

vars == <<convVars, guiVars>>

(***************************************************************************)
(* Bounds of the explored inputs.                                          *)
(***************************************************************************)
\* number of lines of the text files drawn in InitText
MaxLines == 2
\* number of float32 values of an X-Data / Y-Data stream
MaxVals == 2
\* number of (x, y) pairs of a generic data stream
MaxPairs == 5
\* files of create_test_jws_file hold at most this many points
MaxPoints == 11
\* number of files the file dialog offers
MaxFiles == 2

Scale == 10 * 10 * 10 * 10

(***************************************************************************)
(* Python string primitives.                                               *)
(***************************************************************************)
\* str.isspace() for the characters str.strip()/str.split()/float() trim
IsSpace(c) == c \in {9, 10, 11, 12, 13, 28, 29, 30, 31, 32}

IsDigit(c) == c \in 48..57

RECURSIVE LStrip(_)
LStrip(s) == IF s # <<>> /\ IsSpace(Head(s)) THEN LStrip(Tail(s)) ELSE s

RECURSIVE RStrip(_)
RStrip(s) ==
    IF s # <<>> /\ IsSpace(s[Len(s)]) THEN RStrip(SubSeq(s, 1, Len(s) - 1))
    ELSE s

\* str.strip()
Strip(s) == RStrip(LStrip(s))

\* c in s
Contains(s, c) == \E i \in 1..Len(s) : s[i] = c

\* index of the first occurrence of c in s, 0 when there is none
FirstIndex(s, c) ==
    IF Contains(s, c)
    THEN CHOOSE i \in 1..Len(s) : s[i] = c /\ \A j \in 1..(i - 1) : s[j] # c
    ELSE 0

\* index of the last occurrence of c in s, 0 when there is none
LastIndex(s, c) ==
    IF Contains(s, c)
    THEN CHOOSE i \in 1..Len(s) : s[i] = c /\ \A j \in (i + 1)..Len(s) : s[j] # c
    ELSE 0

\* str.split(sep) for a one-character separator: empty fields are kept
RECURSIVE SplitOn(_, _)
SplitOn(s, c) ==
    LET i == FirstIndex(s, c) IN
    IF i = 0 THEN <<s>>
    ELSE <<SubSeq(s, 1, i - 1)>> \o SplitOn(SubSeq(s, i + 1, Len(s)), c)

\* str.split(sep, 1): at most one split
SplitOnce(s, c) ==
    LET i == FirstIndex(s, c) IN
    IF i = 0 THEN <<s>>
    ELSE <<SubSeq(s, 1, i - 1), SubSeq(s, i + 1, Len(s))>>

\* length of the leading run of non-whitespace characters of s
WordLen(s) ==
    LET W == {i \in 1..Len(s) : IsSpace(s[i])} IN
    IF W = {} THEN Len(s) ELSE (CHOOSE i \in W : \A j \in W : i <= j) - 1

\* str.split(): fields are separated by runs of whitespace, none is empty
RECURSIVE SplitWS(_)
SplitWS(s) ==
    LET t == LStrip(s)
        n == WordLen(t)
    IN IF t = <<>> THEN <<>>
       ELSE <<SubSeq(t, 1, n)>> \o SplitWS(SubSeq(t, n + 1, Len(t)))

\* str.split(None, 1): the first word and the rest, leading whitespace removed
SplitWSOnce(s) ==
    LET t == LStrip(s)
        n == WordLen(t)
        r == LStrip(SubSeq(t, n + 1, Len(t)))
    IN IF t = <<>> THEN <<>>
       ELSE IF r = <<>> THEN <<SubSeq(t, 1, n)>>
       ELSE <<SubSeq(t, 1, n), r>>

\* str.upper() / str.lower() on the ASCII letters
UpperChar(c) == IF c \in 97..122 THEN c - 32 ELSE c
LowerChar(c) == IF c \in 65..90 THEN c + 32 ELSE c
Upper(s) == [i \in 1..Len(s) |-> UpperChar(s[i])]
Lower(s) == [i \in 1..Len(s) |-> LowerChar(s[i])]

\* str.startswith(p)
StartsWith(s, p) == Len(s) >= Len(p) /\ SubSeq(s, 1, Len(p)) = p

\* str.replace(c, '') for a one-character c
RECURSIVE RemoveChar(_, _)
RemoveChar(s, c) ==
    IF s = <<>> THEN <<>>
    ELSE IF Head(s) = c THEN RemoveChar(Tail(s), c)
    ELSE <<Head(s)>> \o RemoveChar(Tail(s), c)

(***************************************************************************)
(* float(str).  The accepted grammar is [sign] digits [. [digits]] and     *)
(* [sign] . digits, surrounded by optional whitespace; the input sets of   *)
(* this model contain no exponent, underscore, inf or nan spellings.       *)
(* The value is kept as an integer number of 1/Scale.                      *)
(***************************************************************************)
AllDigits(s) == \A i \in 1..Len(s) : IsDigit(s[i])

RECURSIVE DigitsVal(_)
DigitsVal(s) ==
    IF s = <<>> THEN 0 ELSE 10 * DigitsVal(SubSeq(s, 1, Len(s) - 1)) + (s[Len(s)] - 48)

\* value, in 1/Scale, of the fraction digits s (at most four are significant)
FracVal(s) ==
    LET d(i) == IF i <= Len(s) THEN s[i] - 48 ELSE 0
    IN 1000 * d(1) + 100 * d(2) + 10 * d(3) + d(4)

NoNum == <<"none", 0>>

ParseFloat(s) ==
    LET t    == Strip(s)
        sgn  == IF t # <<>> /\ Head(t) = 45 THEN -1 ELSE 1
        body == IF t # <<>> /\ Head(t) \in {43, 45} THEN Tail(t) ELSE t
        dot  == FirstIndex(body, 46)
        ip   == IF dot = 0 THEN body ELSE SubSeq(body, 1, dot - 1)
        fp   == IF dot = 0 THEN <<>> ELSE SubSeq(body, dot + 1, Len(body))
        good == /\ AllDigits(ip) /\ AllDigits(fp)
                /\ Len(ip) + Len(fp) >= 1
    IN IF good
       THEN [ok |-> TRUE, val |-> <<"dec", sgn * (DigitsVal(ip) * Scale + FracVal(fp))>>]
       ELSE [ok |-> FALSE, val |-> NoNum]

(***************************************************************************)
(* Decoding bytes to text.                                                 *)
(***************************************************************************)
IsCont(b) == b \in 128..191

\* the length of the well-formed UTF-8 sequence that starts at b[j], 0 when
\* none does
SeqLen(b, j) ==
    LET c == b[j]
        n == Len(b) - j + 1
    IN IF c < 128 THEN 1
       ELSE IF c \in 194..223 /\ n >= 2 /\ IsCont(b[j + 1]) THEN 2
       ELSE IF /\ c \in 224..239 /\ n >= 3 /\ IsCont(b[j + 1]) /\ IsCont(b[j + 2])
               /\ (c = 224 => b[j + 1] >= 160) /\ (c = 237 => b[j + 1] <= 159)
            THEN 3
       ELSE IF /\ c \in 240..244 /\ n >= 4
               /\ IsCont(b[j + 1]) /\ IsCont(b[j + 2]) /\ IsCont(b[j + 3])
               /\ (c = 240 => b[j + 1] >= 144) /\ (c = 244 => b[j + 1] <= 143)
            THEN 4
       ELSE 0

\* the code point of the well-formed sequence that starts at b[j]
CodePoint(b, j) ==
    LET k == SeqLen(b, j)
        t(i) == b[j + i] - 128
    IN IF k = 1 THEN b[j]
       ELSE IF k = 2 THEN (b[j] - 192) * 64 + t(1)
       ELSE IF k = 3 THEN (b[j] - 224) * 4096 + t(1) * 64 + t(2)
       ELSE (b[j] - 240) * 262144 + t(1) * 4096 + t(2) * 64 + t(3)

\* bytes.decode('utf-8', errors='ignore'): well-formed sequences of one to
\* four bytes give one code point, every other byte is dropped.  (A lead
\* byte is never a continuation byte, so whether a sequence starts at b[j]
\* does not depend on the bytes before it.)
DecodeIgnore(b) ==
    LET starts == SelectSeq([j \in 1..Len(b) |-> j], LAMBDA j : SeqLen(b, j) > 0)
    IN [i \in 1..Len(starts) |-> CodePoint(b, starts[i])]

\* TRUE iff bytes.decode('utf-8') raises: some byte neither starts a
\* well-formed sequence nor continues one
Utf8Invalid(b) ==
    \E i \in 1..Len(b) :
        /\ SeqLen(b, i) = 0
        /\ ~\E j \in 1..(i - 1) : j + SeqLen(b, j) > i

\* f.readlines() in text mode (universal newlines): each line ends after
\* "\n", "\r\n" or "\r", translated to "\n"; the last line may be unterminated
RECURSIVE ReadLines(_)
ReadLines(t) ==
    IF t = <<>> THEN <<>>
    ELSE LET isNL(i) == t[i] \in {10, 13}
             k == IF \E i \in 1..Len(t) : isNL(i)
                  THEN CHOOSE i \in 1..Len(t) : isNL(i) /\ \A j \in 1..(i - 1) : ~isNL(j)
                  ELSE 0
             e == IF k # 0 /\ t[k] = 13 /\ k < Len(t) /\ t[k + 1] = 10 THEN k + 1 ELSE k
         IN IF k = 0 THEN <<t>>
            ELSE <<Append(SubSeq(t, 1, k - 1), 10)>> \o ReadLines(SubSeq(t, e + 1, Len(t)))

(***************************************************************************)
(* struct.unpack('<f', ...) and the float operations the code uses.        *)
(***************************************************************************)
\* Unpack with the bytes in big-endian order
UnpackBigEndian(b) ==
    <<"f32", b[4] + 256 * b[3] + 65536 * b[2]
             + 16777216 * (IF b[1] >= 128 THEN b[1] - 256 ELSE b[1])>>

\* struct.unpack('<f', b)[0] for a 4-byte b: the little-endian bit pattern,
\* kept as a signed 32-bit integer
Unpack(b) ==
    <<"f32", b[1] + 256 * b[2] + 65536 * b[3]
             + 16777216 * (IF b[4] >= 128 THEN b[4] - 256 ELSE b[4])>>

\* [struct.unpack('<f', d[i*4:i*4+4])[0] for i in range(len(d)//4)]
F32Values(d) == [i \in 1..(Len(d) \div 4) |-> Unpack(SubSeq(d, 4 * i - 3, 4 * i))]

\* the exponent and mantissa bits of a bit pattern, the sign bit cleared
Magnitude(w) == IF w < 0 THEN (w + 2147483647) + 1 ELSE w

\* math.isnan: exponent bits all one and a non-zero mantissa
IsNaN(v) == v[1] = "f32" /\ Magnitude(v[2]) > 2139095040

\* v == 0.0 (true of +0.0 and of -0.0)
IsZero(v) == IF v[1] = "f32" THEN Magnitude(v[2]) = 0 ELSE v[2] = 0

\* a key that orders the non-NaN values as the floats are ordered
Key(v) ==
    IF v[1] = "f32"
    THEN IF v[2] < 0 THEN 0 - Magnitude(v[2]) ELSE v[2]
    ELSE v[2]

\* a < b on floats: false as soon as one side is NaN
Lt(a, b) == ~IsNaN(a) /\ ~IsNaN(b) /\ Key(a) < Key(b)

\* max(ys): the first element, replaced by each later one that is greater
RECURSIVE PyMaxFrom(_, _)
PyMaxFrom(m, ys) ==
    IF ys = <<>> THEN m
    ELSE PyMaxFrom(IF Lt(m, Head(ys)) THEN Head(ys) ELSE m, Tail(ys))

PyMax(ys) == PyMaxFrom(Head(ys), Tail(ys))

\* min(ys): the first element, replaced by each later one that is smaller
RECURSIVE PyMinFrom(_, _)
PyMinFrom(m, ys) ==
    IF ys = <<>> THEN m
    ELSE PyMinFrom(IF Lt(Head(ys), m) THEN Head(ys) ELSE m, Tail(ys))

PyMin(ys) == PyMinFrom(Head(ys), Tail(ys))

\* i * deltax for an integer i and a deltax parsed from text
Times(i, d) == <<"dec", i * d[2]>>

\* list(zip(xs, ys)): truncated to the shorter list
Zip(xs, ys) ==
    LET n == IF Len(xs) <= Len(ys) THEN Len(xs) ELSE Len(ys)
    IN [i \in 1..n |-> <<xs[i], ys[i]>>]

(***************************************************************************)
(* _is_text_file                                                           *)
(***************************************************************************)
SampleSize == 1024

is_text_file(f) ==
    IF ~f.readable THEN FALSE
    ELSE LET chunk == SubSeq(f.bytes, 1, IF Len(f.bytes) < SampleSize
                                         THEN Len(f.bytes) ELSE SampleSize)
             text_chars == Cardinality({i \in 1..Len(chunk) :
                               chunk[i] \in 32..126 \/ chunk[i] \in {9, 10, 13}})
         IN IF chunk = <<>> THEN FALSE
            ELSE 10 * text_chars > 7 * Len(chunk)

(***************************************************************************)
(* _parse_as_text                                                          *)
(***************************************************************************)
\* the fields of a stripped line: split on tab, else on comma, else on
\* whitespace
LineParts(line) ==
    IF Contains(line, 9) THEN SplitOn(line, 9)
    ELSE IF Contains(line, 44) THEN SplitOn(line, 44)
    ELSE SplitWS(line)

\* LinePoints with len(parts) == 2 in place of len(parts) >= 2
LinePointsExactlyTwo(raw) ==
    LET line == Strip(raw) IN
    IF line # <<>> /\ ~StartsWith(line, <<35>>) /\ ~StartsWith(line, <<37>>)
    THEN LET parts == LineParts(line) IN
         IF Len(parts) = 2
         THEN LET x == ParseFloat(parts[1])
                  y == ParseFloat(parts[2])
              IN IF x.ok /\ y.ok THEN <<<<x.val, y.val>>>> ELSE <<>>
         ELSE <<>>
    ELSE <<>>

\* the points one line of the file contributes: none or one
LinePoints(raw) ==
    LET line == Strip(raw) IN
    IF line # <<>> /\ ~StartsWith(line, <<35>>) /\ ~StartsWith(line, <<37>>)
    THEN LET parts == LineParts(line) IN
         IF Len(parts) >= 2
         THEN LET x == ParseFloat(parts[1])
                  y == ParseFloat(parts[2])
              IN IF x.ok /\ y.ok THEN <<<<x.val, y.val>>>> ELSE <<>>
         ELSE <<>>
    ELSE <<>>

RECURSIVE ParseLines(_)
ParseLines(lines) ==
    IF lines = <<>> THEN <<>>
    ELSE LinePoints(Head(lines)) \o ParseLines(Tail(lines))

CouldNotParse == "Could not parse file: No valid data points found in file"
CouldNotOpen == "Could not parse file: cannot open"

parse_as_text(f) ==
    IF ~f.readable
    THEN [ok |-> FALSE, points |-> <<>>, err |-> CouldNotOpen]
    ELSE LET points == ParseLines(ReadLines(DecodeIgnore(f.bytes))) IN
         IF points = <<>>
         THEN [ok |-> FALSE, points |-> <<>>, err |-> CouldNotParse]
         ELSE [ok |-> TRUE, points |-> points, err |-> ""]

(***************************************************************************)
(* The compound container as olefile presents it.  A container is a        *)
(* record [isOle, corrupt, entries]; an entry is [path, kind, data,        *)
(* fault]: its path from the root, "stream" or "storage", its bytes, and   *)
(* whether reading it raises.  Names are matched without regard to case.   *)
(***************************************************************************)
NoOle == [isOle |-> FALSE, corrupt |-> FALSE, entries |-> <<>>]

\* the case folding olefile applies to entry names
FoldName(n) ==
    CASE n = "X-Data" -> "x-data"
      [] n = "Y-Data" -> "y-data"
      [] n = "Header" -> "header"
      [] n = "HEADER" -> "header"
      [] n = "Data" -> "data"
      [] n = "DATA" -> "data"
      [] n = "SpectralData" -> "spectraldata"
      [] n = "Spectra" -> "spectra"
      [] n = "SpecData" -> "specdata"
      [] n = "Measurement" -> "measurement"
      [] n = "Result" -> "result"
      [] n = "ResultData" -> "resultdata"
      [] n = "BaseInfo" -> "baseinfo"
      [] n = "DataInfo" -> "datainfo"
      [] n = "MeasInfo" -> "measinfo"
      [] n = "SampleInfo" -> "sampleinfo"
      [] n = "UserInfo" -> "userinfo"
      [] OTHER -> n

\* index of the root entry called name, 0 when there is none
OleFind(c, name) ==
    LET hit(i) == Len(c.entries[i].path) = 1
                  /\ FoldName(c.entries[i].path[1]) = FoldName(name)
    IN IF \E i \in 1..Len(c.entries) : hit(i)
       THEN CHOOSE i \in 1..Len(c.entries) : hit(i) /\ \A j \in 1..(i - 1) : ~hit(j)
       ELSE 0

\* ole.exists(name)
OleExists(c, name) == OleFind(c, name) # 0

\* ole.openstream(name).read(): raises for a missing name, a storage, or a
\* stream that cannot be read
OleRead(c, name) ==
    LET i == OleFind(c, name) IN
    IF i = 0 \/ c.entries[i].kind # "stream" \/ c.entries[i].fault
    THEN [ok |-> FALSE, data |-> <<>>]
    ELSE [ok |-> TRUE, data |-> c.entries[i].data]

\* ole.listdir(): the paths of the streams, in directory order
RECURSIVE OleListdir(_)
OleListdir(es) ==
    IF es = <<>> THEN <<>>
    ELSE (IF Head(es).kind = "stream" THEN <<Head(es).path>> ELSE <<>>)
         \o OleListdir(Tail(es))

(***************************************************************************)
(* read_jws_file, the part that runs on an opened container.               *)
(***************************************************************************)
\* str.splitlines(): the line boundaries are removed
RECURSIVE SplitLines(_)
SplitLines(t) ==
    IF t = <<>> THEN <<>>
    ELSE LET isNL(i) == t[i] \in {10, 11, 12, 13, 28, 29, 30, 133, 8232, 8233}
             k == IF \E i \in 1..Len(t) : isNL(i)
                  THEN CHOOSE i \in 1..Len(t) : isNL(i) /\ \A j \in 1..(i - 1) : ~isNL(j)
                  ELSE 0
             e == IF k # 0 /\ t[k] = 13 /\ k < Len(t) /\ t[k + 1] = 10 THEN k + 1 ELSE k
         IN IF k = 0 THEN <<t>>
            ELSE <<SubSeq(t, 1, k - 1)>> \o SplitLines(SubSeq(t, e + 1, Len(t)))

DELTAX == <<68, 69, 76, 84, 65, 88>>

DefaultDeltaX == <<"dec", Scale>>

\* ScanDeltaX with len(parts) >= 2 in place of len(parts) == 2
RECURSIVE ScanDeltaXAtLeastTwo(_)
ScanDeltaXAtLeastTwo(lines) ==
    IF lines = <<>> THEN DefaultDeltaX
    ELSE LET line  == Head(lines)
             parts == SplitOn(line, 9)
         IN IF StartsWith(Upper(Strip(line)), DELTAX) /\ Len(parts) >= 2
            THEN LET d == ParseFloat(Strip(parts[2])) IN
                 IF d.ok THEN d.val ELSE DefaultDeltaX
            ELSE ScanDeltaXAtLeastTwo(Tail(lines))

\* the loop over the lines of the Header stream: the first line that starts
\* with DELTAX and has exactly two tab-separated fields decides; a float()
\* failure there raises, which leaves the default
RECURSIVE ScanDeltaX(_)
ScanDeltaX(lines) ==
    IF lines = <<>> THEN DefaultDeltaX
    ELSE LET line  == Head(lines)
             parts == SplitOn(line, 9)
         IN IF StartsWith(Upper(Strip(line)), DELTAX) /\ Len(parts) = 2
            THEN LET d == ParseFloat(Strip(parts[2])) IN
                 IF d.ok THEN d.val ELSE DefaultDeltaX
            ELSE ScanDeltaX(Tail(lines))

\* deltax of the implied-X mode
DeltaXOf(c) ==
    IF OleExists(c, "Header")
    THEN LET h == OleRead(c, "Header") IN
         IF h.ok THEN ScanDeltaX(SplitLines(DecodeIgnore(h.data)))
         ELSE DefaultDeltaX
    ELSE DefaultDeltaX

Candidates ==
    <<"Data", "DATA", "SpectralData", "Spectra", "SpecData", "Measurement",
      "Result", "ResultData">>

\* StreamName with the candidate names tried from the last to the first
StreamNameLastFirst(c) ==
    LET hit(i) == OleExists(c, Candidates[i]) IN
    IF \E i \in 1..Len(Candidates) : hit(i)
    THEN Candidates[CHOOSE i \in 1..Len(Candidates) : hit(i) /\ \A j \in (i + 1)..Len(Candidates) : ~hit(j)]
    ELSE LET streams == SelectSeq(OleListdir(c.entries), LAMBDA e : Len(e) = 1) IN
         IF streams # <<>> THEN streams[1][1] ELSE ""

\* the stream the generic mode decodes, "" when there is none
StreamName(c) ==
    LET hit(i) == OleExists(c, Candidates[i]) IN
    IF \E i \in 1..Len(Candidates) : hit(i)
    THEN Candidates[CHOOSE i \in 1..Len(Candidates) : hit(i) /\ \A j \in 1..(i - 1) : ~hit(j)]
    ELSE LET streams == SelectSeq(OleListdir(c.entries), LAMBDA e : Len(e) = 1) IN
         IF streams # <<>> THEN streams[1][1] ELSE ""

\* the interleaved pairs of a generic stream
Pairs(data) ==
    [i \in 1..(Len(data) \div 8) |->
        <<Unpack(SubSeq(data, 8 * i - 7, 8 * i - 4)), Unpack(SubSeq(data, 8 * i - 3, 8 * i))>>]

nan_count(points) ==
    Cardinality({i \in 1..Len(points) : IsNaN(points[i][1]) \/ IsNaN(points[i][2])})

zero_count(points) ==
    Cardinality({i \in 1..Len(points) : IsZero(points[i][1]) /\ IsZero(points[i][2])})

\* Implausible with >= in place of >
ImplausibleInclusive(points) ==
    \/ 5 * nan_count(points) >= Len(points)
    \/ 2 * zero_count(points) >= Len(points)

\* nan_count > num_points * 0.2 or zero_count > num_points * 0.5
Implausible(points) ==
    \/ 5 * nan_count(points) > Len(points)
    \/ 2 * zero_count(points) > Len(points)

Raise(m) == [outcome |-> "raise", mode |-> m, points |-> <<>>, cand |-> <<>>]
Return(m, pts) == [outcome |-> "return", mode |-> m, points |-> pts, cand |-> pts]

\* Case 1: X-Data and Y-Data
Paired(c) ==
    LET x == OleRead(c, "X-Data")
        y == OleRead(c, "Y-Data")
        points == Zip(F32Values(x.data), F32Values(y.data))
    IN IF ~x.ok \/ ~y.ok \/ points = <<>> THEN Raise("paired")
       ELSE Return("paired", points)

\* Implied with X counted from 1
ImpliedFromOne(c) ==
    LET y == OleRead(c, "Y-Data")
        yvals == F32Values(y.data)
        deltax == DeltaXOf(c)
        xvals == [i \in 1..Len(yvals) |-> Times(i, deltax)]
        points == Zip(xvals, yvals)
    IN IF ~y.ok \/ points = <<>> THEN Raise("implied")
       ELSE Return("implied", points)

\* Case 2: only Y-Data, X implied
Implied(c) ==
    LET y == OleRead(c, "Y-Data")
        yvals == F32Values(y.data)
        deltax == DeltaXOf(c)
        xvals == [i \in 1..Len(yvals) |-> Times(i - 1, deltax)]
        points == Zip(xvals, yvals)
    IN IF ~y.ok \/ points = <<>> THEN Raise("implied")
       ELSE Return("implied", points)

\* the fallback: one stream of interleaved pairs, then the plausibility gate
Generic(c) ==
    LET stream_name == StreamName(c)
        d == OleRead(c, stream_name)
        points == Pairs(d.data)
    IN IF stream_name = "" \/ ~d.ok \/ Len(d.data) % 8 # 0 THEN Raise("generic")
       ELSE IF Implausible(points)
            THEN [outcome |-> "gate", mode |-> "generic", points |-> <<>>, cand |-> points]
       ELSE Return("generic", points)

\* the body of the with block of read_jws_file
Extract(c) ==
    IF OleExists(c, "X-Data") /\ OleExists(c, "Y-Data") THEN Paired(c)
    ELSE IF OleExists(c, "Y-Data") THEN Implied(c)
    ELSE Generic(c)

(***************************************************************************)
(* convert_to_txt: the header.                                             *)
(***************************************************************************)
header_fields ==
    <<"TITLE", "DATA TYPE", "ORIGIN", "OWNER", "DATE", "TIME",
      "SPECTROMETER/DATA SYSTEM", "LOCALE", "RESOLUTION", "DELTAX", "XUNITS",
      "YUNITS", "FIRSTX", "LASTX", "NPOINTS", "FIRSTY", "MAXY", "MINY">>

FieldSet == {header_fields[i] : i \in 1..Len(header_fields)}

\* the characters of a field name
FieldCodes(k) ==
    CASE k = "TITLE" -> <<84, 73, 84, 76, 69>>
      [] k = "DATA TYPE" -> <<68, 65, 84, 65, 32, 84, 89, 80, 69>>
      [] k = "ORIGIN" -> <<79, 82, 73, 71, 73, 78>>
      [] k = "OWNER" -> <<79, 87, 78, 69, 82>>
      [] k = "DATE" -> <<68, 65, 84, 69>>
      [] k = "TIME" -> <<84, 73, 77, 69>>
      [] k = "SPECTROMETER/DATA SYSTEM" -> <<83, 80, 69, 67, 84, 82, 79, 77, 69, 84, 69, 82, 47, 68, 65, 84, 65, 32, 83, 89, 83, 84, 69, 77>>
      [] k = "LOCALE" -> <<76, 79, 67, 65, 76, 69>>
      [] k = "RESOLUTION" -> <<82, 69, 83, 79, 76, 85, 84, 73, 79, 78>>
      [] k = "DELTAX" -> <<68, 69, 76, 84, 65, 88>>
      [] k = "XUNITS" -> <<88, 85, 78, 73, 84, 83>>
      [] k = "YUNITS" -> <<89, 85, 78, 73, 84, 83>>
      [] k = "FIRSTX" -> <<70, 73, 82, 83, 84, 88>>
      [] k = "LASTX" -> <<76, 65, 83, 84, 88>>
      [] k = "NPOINTS" -> <<78, 80, 79, 73, 78, 84, 83>>
      [] k = "FIRSTY" -> <<70, 73, 82, 83, 84, 89>>
      [] k = "MAXY" -> <<77, 65, 88, 89>>
      [] k = "MINY" -> <<77, 73, 78, 89>>

\* a header value is a string, or a number under a format specification
Str(s) == [fmt |-> "s", num |-> NoNum, s |-> s]
Fmt(f, v) == [fmt |-> f, num |-> v, s |-> <<>>]

\* the truth value of a header value: a non-empty string
Truthy(v) == v.fmt # "s" \/ v.s # <<>>

EmptyHeader == [k \in FieldSet |-> Str(<<>>)]

MetaStreams == <<"Header", "BaseInfo", "DataInfo", "MeasInfo", "SampleInfo", "UserInfo">>

\* the 16-bit code units of b, two bytes each
Utf16Units(b, bigEndian) ==
    [i \in 1..(Len(b) \div 2) |->
        IF bigEndian THEN 256 * b[2 * i - 1] + b[2 * i]
        ELSE b[2 * i - 1] + 256 * b[2 * i]]

\* TRUE iff the units hold a surrogate that is not half of a pair
RECURSIVE BadSurrogates(_)
BadSurrogates(u) ==
    IF u = <<>> THEN FALSE
    ELSE IF Head(u) \in 55296..56319
         THEN IF Len(u) >= 2 /\ u[2] \in 56320..57343
              THEN BadSurrogates(Tail(Tail(u)))
              ELSE TRUE
    ELSE IF Head(u) \in 56320..57343 THEN TRUE
    ELSE BadSurrogates(Tail(u))

\* the code points of well-formed units
RECURSIVE Utf16Points(_)
Utf16Points(u) ==
    IF u = <<>> THEN <<>>
    ELSE IF Head(u) \in 55296..56319
         THEN <<65536 + (Head(u) - 55296) * 1024 + (u[2] - 56320)>>
              \o Utf16Points(Tail(Tail(u)))
    ELSE <<Head(u)>> \o Utf16Points(Tail(u))

\* bytes.decode('utf-16'): a byte order mark selects the byte order and is
\* removed, little-endian without one; an odd length or a lone surrogate
\* raises
DecodeUtf16(b) ==
    LET le   == Len(b) >= 2 /\ b[1] = 255 /\ b[2] = 254
        be   == Len(b) >= 2 /\ b[1] = 254 /\ b[2] = 255
        body == IF le \/ be THEN SubSeq(b, 3, Len(b)) ELSE b
        u    == Utf16Units(body, be)
    IN IF Len(body) % 2 # 0 \/ BadSurrogates(u) THEN [ok |-> FALSE, text |-> <<>>]
       ELSE [ok |-> TRUE, text |-> Utf16Points(u)]

\* the text of a metadata stream: utf-8, else utf-16 without the NULs, else
\* utf-8 with the undecodable bytes dropped
DecodeMeta(raw) ==
    IF ~Utf8Invalid(raw) THEN DecodeIgnore(raw)
    ELSE LET u == DecodeUtf16(raw) IN
         IF u.ok THEN RemoveChar(u.text, 0) ELSE DecodeIgnore(raw)

\* one line of a metadata stream applied to the header h
AssignLine(h, line) ==
    LET parts == IF Contains(line, 9) THEN SplitOnce(line, 9)
                 ELSE IF Contains(line, 58) THEN SplitOnce(line, 58)
                 ELSE SplitWSOnce(line)
    IN IF Len(parts) = 2
       THEN LET key   == Upper(Strip(parts[1]))
                value == Strip(parts[2])
            IN [k \in FieldSet |->
                   IF key = FieldCodes(k)
                      \/ RemoveChar(key, 32) = RemoveChar(FieldCodes(k), 32)
                   THEN Str(value) ELSE h[k]]
       ELSE h

RECURSIVE AssignLines(_, _)
AssignLines(h, lines) ==
    IF lines = <<>> THEN h ELSE AssignLines(AssignLine(h, Head(lines)), Tail(lines))

\* the loop over the metadata streams; a stream that cannot be read raises,
\* which ends the extraction with what has been assigned so far
RECURSIVE ScanMeta(_, _, _)
ScanMeta(c, names, h) ==
    IF names = <<>> THEN h
    ELSE IF ~OleExists(c, Head(names)) THEN ScanMeta(c, Tail(names), h)
    ELSE LET r == OleRead(c, Head(names)) IN
         IF ~r.ok THEN h
         ELSE LET h2 == AssignLines(h, SplitLines(DecodeMeta(r.data))) IN
              IF Truthy(h2["TITLE"]) /\ Truthy(h2["DATE"]) /\ Truthy(h2["TIME"])
              THEN h2
              ELSE ScanMeta(c, Tail(names), h2)

\* the metadata block of convert_to_txt; every exception leaves the header
\* as it is
Metadata(f, e, h) ==
    IF ~e.olefile \/ ~f.readable \/ ~f.ole.isOle \/ f.ole.corrupt THEN h
    ELSE ScanMeta(f.ole, MetaStreams, h)

Column(points, j) == [i \in 1..Len(points) |-> points[i][j]]

\* Stats that keeps a value the metadata gave
StatsKeepMetadata(h, points) ==
    IF points # <<>>
    THEN LET xvals == Column(points, 1)
             yvals == Column(points, 2)
             d(k, v) == IF Truthy(h[k]) THEN h[k] ELSE v
         IN [h EXCEPT !["FIRSTX"]  = d("FIRSTX", Fmt("10.4f", xvals[1])),
                      !["LASTX"]   = d("LASTX", Fmt("10.4f", xvals[Len(xvals)])),
                      !["NPOINTS"] = d("NPOINTS", Fmt("7d", <<"int", Len(points)>>)),
                      !["FIRSTY"]  = d("FIRSTY", Fmt("10.5f", yvals[1])),
                      !["MAXY"]    = d("MAXY", Fmt("10.5f", PyMax(yvals))),
                      !["MINY"]    = d("MINY", Fmt("10.5f", PyMin(yvals)))]
    ELSE h

\* the values computed from the data points
Stats(h, points) ==
    IF points # <<>>
    THEN LET xvals == Column(points, 1)
             yvals == Column(points, 2)
         IN [h EXCEPT !["FIRSTX"]  = Fmt("10.4f", xvals[1]),
                      !["LASTX"]   = Fmt("10.4f", xvals[Len(xvals)]),
                      !["NPOINTS"] = Fmt("7d", <<"int", Len(points)>>),
                      !["FIRSTY"]  = Fmt("10.5f", yvals[1]),
                      !["MAXY"]    = Fmt("10.5f", PyMax(yvals)),
                      !["MINY"]    = Fmt("10.5f", PyMin(yvals))]
    ELSE h

\* os.path.splitext(os.path.basename(path))[0]
Stem(path) ==
    LET slash == LastIndex(path, 47)
        base  == SubSeq(path, slash + 1, Len(path))
        dot   == LastIndex(base, 46)
    IN IF dot # 0 /\ \E i \in 1..(dot - 1) : base[i] # 46
       THEN SubSeq(base, 1, dot - 1)
       ELSE base

JASCO == <<74, 65, 83, 67, 79>>
FLUORESCENCE_SPECTRUM == <<70, 76, 85, 79, 82, 69, 83, 67, 69, 78, 67, 69, 32, 83, 80, 69, 67, 84, 82, 85, 77>>
SEC == <<83, 69, 67>>
INTENSITY == <<73, 78, 84, 69, 78, 83, 73, 84, 89>>

\* the defaults of the fields that are still empty
Defaults(h, path) ==
    LET d(k, v) == IF Truthy(h[k]) THEN h[k] ELSE Str(v)
    IN [h EXCEPT !["ORIGIN"]    = d("ORIGIN", JASCO),
                 !["DATA TYPE"] = d("DATA TYPE", FLUORESCENCE_SPECTRUM),
                 !["TITLE"]     = d("TITLE", Stem(path)),
                 !["XUNITS"]    = d("XUNITS", SEC),
                 !["YUNITS"]    = d("YUNITS", INTENSITY)]

(***************************************************************************)
(* convert_to_txt: the output file.  A line is kept as the arguments of    *)
(* its format string.                                                      *)
(***************************************************************************)
HeaderLine(k, v) == [kind |-> "header", field |-> k, value |-> v, x |-> NoNum, y |-> NoNum]
XYDataLine == [kind |-> "XYDATA", field |-> "", value |-> Str(<<>>), x |-> NoNum, y |-> NoNum]
DataLine(p) == [kind |-> "data", field |-> "", value |-> Str(<<>>), x |-> p[1], y |-> p[2]]

\* OutputLines that leaves out the header fields whose value is empty
OutputLinesSkipEmpty(h, points) ==
    SelectSeq([i \in 1..Len(header_fields) |-> HeaderLine(header_fields[i], h[header_fields[i]])],
              LAMBDA l : Truthy(l.value))
    \o <<XYDataLine>>
    \o [i \in 1..Len(points) |-> DataLine(points[i])]

\* the lines the with block writes, in order
OutputLines(h, points) ==
    [i \in 1..Len(header_fields) |-> HeaderLine(header_fields[i], h[header_fields[i]])]
    \o <<XYDataLine>>
    \o [i \in 1..Len(points) |-> DataLine(points[i])]

\* whether the encoding of the output file has the character c
CharEncodable(c, enc) ==
    IF enc = "utf-8" THEN c \notin 55296..57343
    ELSE c < 128 \/ c \in 160..255

LineEncodable(l, enc) == \A i \in 1..Len(l.value.s) : CharEncodable(l.value.s[i], enc)

NoFile == [exists |-> FALSE, lines |-> <<>>]

\* open(output_path, 'w') and the writes: open raises when the directory is
\* missing and leaves the path alone; a line that cannot be encoded raises
\* after the file was truncated and the lines before it were written
WriteFile(lines, e, before) ==
    LET bad(i) == ~LineEncodable(lines[i], e.encoding) IN
    IF ~e.outDir THEN [ok |-> FALSE, out |-> before, err |-> "No such file or directory"]
    ELSE IF \E i \in 1..Len(lines) : bad(i)
         THEN LET k == CHOOSE i \in 1..Len(lines) : bad(i) /\ \A j \in 1..(i - 1) : ~bad(j)
              IN [ok |-> FALSE, out |-> [exists |-> TRUE, lines |-> SubSeq(lines, 1, k - 1)],
                  err |-> "codec can't encode character"]
    ELSE [ok |-> TRUE, out |-> [exists |-> TRUE, lines |-> lines], err |-> ""]

(***************************************************************************)
(* The state machine: one call of convert_to_txt(input_path, output_path). *)
(* pc is the position in the call; a raised exception travels to the       *)
(* handler of convert_to_txt with its text in result.detail.               *)
(***************************************************************************)
\* the outcome of read_jws_file
NoRead == [done |-> FALSE, ok |-> FALSE, points |-> <<>>, err |-> ""]
ReadReturned(pts) == [done |-> TRUE, ok |-> TRUE, points |-> pts, err |-> ""]
ReadRaised(e) == [done |-> TRUE, ok |-> FALSE, points |-> <<>>, err |-> e]

NoResult == [success |-> FALSE, prefix |-> "", detail |-> "", n |-> 0]
Raised(e) == [success |-> FALSE, prefix |-> "", detail |-> e, n |-> 0]

TextExts == {<<116, 120, 116>>, <<99, 115, 118>>, <<100, 97, 116>>, <<97, 115, 99>>}

\* filepath.lower().split('.')[-1]
Ext(path) ==
    LET p == Lower(path) IN SubSeq(p, LastIndex(p, 46) + 1, Len(p))

\* read_jws_file, lines 22-24: the extension and the classifier
Detect ==
    /\ pc = "start"
    /\ pc' = IF Ext(file.path) \in TextExts \/ is_text_file(file) THEN "text" ELSE "import"
    /\ UNCHANGED guiVars
    /\ UNCHANGED <<readResult, file, env, inTry, textRuns, textFails, oleFailed, mode,
                   candidate, data_points, header, out, result>>

\* lines 25-28: import olefile
ImportOlefile ==
    /\ pc = "import"
    /\ IF env.olefile
       THEN pc' = "check" /\ UNCHANGED <<result, readResult>>
       ELSE /\ pc' = "raised"
            /\ result' = Raised("olefile module is required to parse JWS files")
            /\ readResult' = ReadRaised("olefile module is required to parse JWS files")
    /\ UNCHANGED guiVars
    /\ UNCHANGED <<file, env, inTry, textRuns, textFails, oleFailed, mode,
                   candidate, data_points, header, out>>

\* lines 29-32: the signature check and the opening of the container.  A
\* file that is no container is parsed as text inside the try block; a file
\* or container that cannot be read raises into the handler of line 100
ContainerCheck ==
    /\ pc = "check"
    /\ IF ~file.readable \/ (file.ole.isOle /\ file.ole.corrupt)
       THEN pc' = "text" /\ inTry' = FALSE /\ oleFailed' = TRUE
       ELSE IF ~file.ole.isOle
       THEN pc' = "text" /\ inTry' = TRUE /\ oleFailed' = TRUE
       ELSE pc' = "extract" /\ UNCHANGED <<inTry, oleFailed>>
    /\ UNCHANGED guiVars
    /\ UNCHANGED <<readResult, file, env, textRuns, textFails, mode, candidate,
                   data_points, header, out, result>>

\* AfterExtract with a handler that lets the container error leave
\* read_jws_file
AfterExtractPropagate(r) ==
    /\ mode' = r.mode
    /\ candidate' = r.cand
    /\ IF r.outcome = "return"
       THEN /\ data_points' = r.points /\ pc' = "have_points"
            /\ readResult' = ReadReturned(r.points)
            /\ UNCHANGED <<inTry, oleFailed, result>>
       ELSE IF r.outcome = "raise"
       THEN /\ pc' = "raised" /\ inTry' = FALSE /\ oleFailed' = TRUE
            /\ readResult' = ReadRaised("container error")
            /\ result' = Raised("container error")
            /\ UNCHANGED data_points
       ELSE /\ pc' = "text" /\ inTry' = TRUE
            /\ UNCHANGED <<data_points, oleFailed, readResult, result>>
    /\ UNCHANGED guiVars
    /\ UNCHANGED <<file, env, textRuns, textFails, header, out>>

\* what follows an extraction r: its points are returned, its exception is
\* caught at line 100, or the gate calls the text parser at line 98
AfterExtract(r) ==
    /\ mode' = r.mode
    /\ candidate' = r.cand
    /\ IF r.outcome = "return"
       THEN /\ data_points' = r.points /\ pc' = "have_points"
            /\ readResult' = ReadReturned(r.points)
            /\ UNCHANGED <<inTry, oleFailed>>
       ELSE IF r.outcome = "raise"
       THEN /\ pc' = "text" /\ inTry' = FALSE /\ oleFailed' = TRUE
            /\ UNCHANGED <<data_points, readResult>>
       ELSE /\ pc' = "text" /\ inTry' = TRUE
            /\ UNCHANGED <<data_points, oleFailed, readResult>>
    /\ UNCHANGED guiVars
    /\ UNCHANGED <<file, env, textRuns, textFails, header, out, result>>

\* lines 35-44
ExtractPaired ==
    /\ pc = "extract"
    /\ OleExists(file.ole, "X-Data") /\ OleExists(file.ole, "Y-Data")
    /\ AfterExtract(Paired(file.ole))

\* lines 46-68
ExtractImplied ==
    /\ pc = "extract"
    /\ ~(OleExists(file.ole, "X-Data") /\ OleExists(file.ole, "Y-Data"))
    /\ OleExists(file.ole, "Y-Data")
    /\ AfterExtract(Implied(file.ole))

\* lines 70-99
ExtractGeneric ==
    /\ pc = "extract"
    /\ ~OleExists(file.ole, "Y-Data")
    /\ AfterExtract(Generic(file.ole))

\* _parse_as_text, called from line 24, 31, 98 or 102.  Its exception is
\* caught at line 100 when the call is inside the try block, and then the
\* handler calls it again; otherwise it leaves read_jws_file
ParseText ==
    /\ pc = "text"
    /\ textRuns' = textRuns + 1
    /\ LET r == parse_as_text(file) IN
       IF r.ok
       THEN /\ data_points' = r.points /\ pc' = "have_points"
            /\ readResult' = ReadReturned(r.points)
            /\ inTry' = FALSE
            /\ UNCHANGED <<textFails, result>>
       ELSE /\ textFails' = textFails + 1
            /\ inTry' = FALSE
            /\ IF inTry THEN pc' = "text" /\ UNCHANGED <<result, readResult>>
               ELSE /\ pc' = "raised" /\ result' = Raised(r.err)
                    /\ readResult' = ReadRaised(r.err)
            /\ UNCHANGED data_points
    /\ UNCHANGED guiVars
    /\ UNCHANGED <<file, env, oleFailed, mode, candidate, header, out>>

\* convert_to_txt, lines 157-163
StartHeader ==
    /\ pc = "have_points"
    /\ IF data_points = <<>>
       THEN pc' = "raised" /\ result' = Raised("No data points found in file")
            /\ UNCHANGED header
       ELSE pc' = "metadata" /\ header' = EmptyHeader /\ UNCHANGED result
    /\ UNCHANGED guiVars
    /\ UNCHANGED <<readResult, file, env, inTry, textRuns, textFails, oleFailed, mode,
                   candidate, data_points, out>>

\* lines 164-197
ExtractMetadata ==
    /\ pc = "metadata"
    /\ header' = Metadata(file, env, header)
    /\ pc' = "stats"
    /\ UNCHANGED guiVars
    /\ UNCHANGED <<readResult, file, env, inTry, textRuns, textFails, oleFailed, mode,
                   candidate, data_points, out, result>>

\* lines 199-214
FillHeader ==
    /\ pc = "stats"
    /\ header' = Defaults(Stats(header, data_points), file.path)
    /\ pc' = "write"
    /\ UNCHANGED guiVars
    /\ UNCHANGED <<readResult, file, env, inTry, textRuns, textFails, oleFailed, mode,
                   candidate, data_points, out, result>>

\* lines 216-223
WriteOutput ==
    /\ pc = "write"
    /\ LET w == WriteFile(OutputLines(header, data_points), env, out) IN
       /\ out' = w.out
       /\ IF w.ok
          THEN /\ pc' = "done"
               /\ result' = [success |-> TRUE, prefix |-> "Successfully converted",
                             detail |-> "data points", n |-> Len(data_points)]
          ELSE pc' = "raised" /\ result' = Raised(w.err)
    /\ UNCHANGED guiVars
    /\ UNCHANGED <<readResult, file, env, inTry, textRuns, textFails, oleFailed, mode,
                   candidate, data_points, header>>

\* lines 224-225
ReturnFailure ==
    /\ pc = "raised"
    /\ pc' = "done"
    /\ result' = [result EXCEPT !.prefix = "Error converting file: "]
    /\ UNCHANGED guiVars
    /\ UNCHANGED <<readResult, file, env, inTry, textRuns, textFails, oleFailed, mode,
                   candidate, data_points, header, out>>

Next ==
    \/ Detect
    \/ ImportOlefile
    \/ ContainerCheck
    \/ ExtractPaired
    \/ ExtractImplied
    \/ ExtractGeneric
    \/ ParseText
    \/ StartHeader
    \/ ExtractMetadata
    \/ FillHeader
    \/ WriteOutput
    \/ ReturnFailure

(***************************************************************************)
(* The inputs: files, containers and environments.                         *)
(***************************************************************************)
SeqsUpTo(S, n) == UNION {[1..k -> S] : k \in 0..n}

RECURSIVE Flatten(_)
Flatten(ss) == IF ss = <<>> THEN <<>> ELSE Head(ss) \o Flatten(Tail(ss))

\* the lines, each followed by a line feed
JoinLines(ls) == Flatten([i \in 1..Len(ls) |-> Append(ls[i], 10)])

\* float32 bit patterns, little-endian: 1.0, 2.0, a quiet NaN, 0.0
One == <<0, 0, 128, 63>>
Two == <<0, 0, 0, 64>>
NaN == <<0, 0, 192, 127>>
Zero == <<0, 0, 0, 0>>

\* X-Data / Y-Data payloads: whole values, then possibly a stray byte
F32Streams ==
    {Flatten(ws) \o t : ws \in SeqsUpTo({One, Two, NaN}, MaxVals), t \in {<<>>, <<7>>}}

\* generic payloads: whole pairs, then possibly half a pair
PairStreams ==
    {Flatten(ps) \o t : ps \in SeqsUpTo({One \o Two, NaN \o One, Zero \o Zero}, MaxPairs),
                        t \in {<<>>, One}}

\* the 100-pair candidate with 25 NaN pairs
Gate100 == Flatten([i \in 1..100 |-> IF i <= 25 THEN NaN \o One ELSE One \o Two])

\* the lines the text files are made of
SampleLines ==
    {<<49, 9, 50>>,
     <<49, 44, 50>>,
     <<49, 32, 50>>,
     <<49, 32, 32, 50>>,
     <<32, 49, 9, 50, 32>>,
     <<35, 49, 9, 50>>,
     <<37, 49, 32, 50>>,
     <<32, 35, 32, 49, 32, 50>>,
     <<>>,
     <<32>>,
     <<49>>,
     <<120, 9, 50>>,
     <<49, 9, 120>>,
     <<49, 9, 50, 9, 51>>,
     <<49, 9, 9, 50>>,
     <<49, 44, 50, 9, 51>>,
     <<49, 32, 50, 44, 51>>,
     <<49, 44, 32, 50>>,
     <<49, 32, 50, 32, 51>>,
     <<50, 46, 53, 9, 45, 49>>,
     <<49, 32, 50, 9>>,
     <<49, 46, 9, 46, 53>>,
     <<46, 9, 49>>}

\* the lines the Header streams are made of
HeaderLines ==
    {<<68, 69, 76, 84, 65, 88, 9, 50, 46, 53>>,
     <<100, 101, 108, 116, 97, 120, 9, 50, 46, 53>>,
     <<32, 68, 69, 76, 84, 65, 88, 32, 9, 32, 50, 46, 53, 32>>,
     <<68, 69, 76, 84, 65, 88, 89, 9, 51>>,
     <<68, 69, 76, 84, 65, 88, 9, 50, 46, 53, 9, 57>>,
     <<68, 69, 76, 84, 65, 88, 9, 120>>,
     <<68, 69, 76, 84, 65, 88, 32, 50, 46, 53>>,
     <<68, 69, 76, 84, 65, 88>>,
     <<68, 69, 76, 84, 65, 9, 52>>,
     <<84, 73, 84, 76, 69, 9, 84>>,
     <<68, 69, 76, 84, 65, 88, 9, 53>>,
     <<88, 68, 69, 76, 84, 65, 88, 9, 55>>}

\* the lines the metadata streams are made of
MetaLines ==
    {<<70, 73, 82, 83, 84, 88, 9, 57>>,
     <<76, 65, 83, 84, 88, 58, 32, 57>>,
     <<78, 80, 79, 73, 78, 84, 83, 32, 57>>,
     <<70, 73, 82, 83, 84, 89, 9, 57>>,
     <<77, 65, 88, 89, 9, 57>>,
     <<77, 73, 78, 89, 9, 57>>,
     <<84, 73, 84, 76, 69, 9, 84>>,
     <<68, 65, 84, 69, 9, 68>>,
     <<84, 73, 77, 69, 9, 84>>,
     <<100, 97, 116, 97, 32, 116, 121, 112, 101, 9, 120>>,
     <<68, 65, 84, 65, 84, 89, 80, 69, 9, 120>>,
     <<79, 87, 78, 69, 82>>,
     <<88, 85, 78, 73, 84, 83, 9, 110, 109, 9, 120>>}

Stream(name, data) == [path |-> <<name>>, kind |-> "stream", data |-> data, fault |-> FALSE]
Container(es) == [isOle |-> TRUE, corrupt |-> FALSE, entries |-> es]

A_JWS == <<97, 46, 106, 119, 115>>
A_TXT == <<97, 46, 116, 120, 116>>
\* a file name outside the Windows-1252 character set
U_JWS == <<35430>> \o <<46, 106, 119, 115>>

\* a file name with a byte that is not UTF-8, as os.fsdecode returns it
S_JWS == <<56553>> \o <<46, 106, 119, 115>>

PlainFile(path, bytes) == [path |-> path, readable |-> TRUE, bytes |-> bytes, ole |-> NoOle]

\* the signature of a compound file, then bytes that read as text
OleMagic == <<208, 207, 17, 224, 161, 177, 26, 225>>
OleFile(path, tail, c) == [path |-> path, readable |-> TRUE, bytes |-> OleMagic \o tail, ole |-> c]

Unreadable == [path |-> A_JWS, readable |-> FALSE, bytes |-> <<>>, ole |-> NoOle]

\* what the text parser finds in a container file: nothing, or one point
OleTails == {<<>>, <<10, 49, 9, 50, 10>>}

\* the lines that surround a sample line
CommonLines ==
    {<<49, 9, 50>>,
     <<35, 49, 9, 50>>,
     <<>>,
     <<50, 46, 53, 9, 45, 49>>}

\* at most MaxLines lines: one sample line among common lines, or no line
TextLineSeqs ==
    {<<>>} \cup
    {c[1] \o <<c[2]>> \o c[3] :
        c \in {d \in SeqsUpTo(CommonLines, MaxLines) \X SampleLines \X SeqsUpTo(CommonLines, MaxLines) :
                  Len(d[1]) + Len(d[3]) < MaxLines}}

\* text files of at most MaxLines lines
TextFiles ==
    {PlainFile(p, JoinLines(ls)) : p \in {A_JWS, A_TXT}, ls \in TextLineSeqs}

\* test_text_file_parsing: 2 comment lines and 20 tab-separated rows
Digits(n) ==
    LET d(k) == 48 + ((n \div k) % 10) IN
    IF n < 10 THEN <<d(1)>>
    ELSE IF n < 100 THEN <<d(10), d(1)>>
    ELSE IF n < 1000 THEN <<d(100), d(10), d(1)>>
    ELSE <<d(1000), d(100), d(10), d(1)>>

TestRow(i) ==
    Digits(1000 + i * 50) \o <<9, 48, 46>> \o Digits(1000 + 1600 * (i % 5))

TestTextFile ==
    PlainFile(A_TXT,
        JoinLines(<<<<35, 32, 84, 101, 115, 116, 32, 115, 112, 101, 99, 116, 114, 97, 108, 32, 100, 97, 116, 97>>,
                    <<35, 32, 87, 97, 118, 101, 110, 117, 109, 98, 101, 114, 9, 73, 110, 116, 101, 110, 115, 105, 116, 121>>>>
                  \o [i \in 1..20 |-> TestRow(i - 1)]))

\* create_test_jws_file: a 512-byte header, then num_points pairs of
\* little-endian float32
HeaderSize == 512

\* the num_points of test_conversion
TestPoints == 50

\* struct.pack('<f', v) for a whole number v in 1 .. 2^24 - 1
PackInt(v) ==
    LET e == CHOOSE k \in 0..23 : 2 ^ k <= v /\ v < 2 ^ (k + 1)
        w == (e + 127) * 8388608 + (v - 2 ^ e) * 2 ^ (23 - e)
    IN <<w % 256, (w \div 256) % 256, (w \div 65536) % 256, w \div 16777216>>

\* struct.pack('<f', 0.5 + 0.3 * k / 10.0) for k = 0 .. 9
TestY ==
    <<<<0, 0, 0, 63>>, <<20, 174, 7, 63>>, <<41, 92, 15, 63>>, <<61, 10, 23, 63>>,
      <<82, 184, 30, 63>>, <<102, 102, 38, 63>>, <<123, 20, 46, 63>>,
      <<143, 194, 53, 63>>, <<164, 112, 61, 63>>, <<184, 30, 69, 63>>>>

JASCO_TEST_FILE == <<74, 65, 83, 67, 79, 32, 84, 69, 83, 84, 32, 70, 73, 76, 69>>

create_test_jws_file(num_points) ==
    PlainFile(A_JWS,
        JASCO_TEST_FILE \o [i \in 1..(HeaderSize - 15) |-> 0]
        \o Flatten([i \in 1..num_points |-> PackInt(1000 + (i - 1) * 10) \o TestY[((i - 1) % 10) + 1]]))

TestJwsFiles == {create_test_jws_file(n) : n \in (1..MaxPoints) \cup {TestPoints}}

\* files that are not text-like and not containers
BinaryFiles ==
    {PlainFile(p, b) : p \in {A_JWS, A_TXT},
                       b \in {<<0, 255, 0>>, <<0, 0, 0, 0, 0, 0, 0, 0, 0, 0, 0, 0, 10, 49, 32, 50, 10>>}}

PairedFiles ==
    {OleFile(A_JWS, <<>>, Container(<<Stream("X-Data", x), Stream("Y-Data", y)>>)) :
        x \in F32Streams, y \in F32Streams}
    \cup
    {OleFile(A_JWS, t, Container(<<Stream("X-Data", x), Stream("Y-Data", x)>>)) :
        t \in OleTails, x \in F32Streams}

ImpliedFiles ==
    {OleFile(A_JWS, t, Container(<<Stream("Y-Data", y)>>)) : t \in OleTails, y \in F32Streams}
    \cup
    {OleFile(A_JWS, <<>>, Container(<<Stream("Y-Data", One \o Two \o NaN),
                                      Stream("Header", JoinLines(ls))>>)) :
        ls \in SeqsUpTo(HeaderLines, 2)}

GenericFiles ==
    {OleFile(A_JWS, <<>>, Container(<<Stream(n, d)>>)) :
        n \in {"Data", "Misc"}, d \in PairStreams}
    \cup
    {OleFile(A_JWS, t, Container(<<Stream("Data", Flatten(ps))>>)) :
        t \in OleTails, ps \in SeqsUpTo({One \o Two, NaN \o One, Zero \o Zero}, MaxPairs)}
    \cup
    {OleFile(A_JWS, t, Container(<<Stream("Data", Gate100)>>)) : t \in OleTails}

\* containers of two root entries for the generic mode: candidate names
\* and other names in either order, the first a stream or a storage
PickNames == {"ResultData", "DATA", "Spectra", "Misc", "X-Data"}

PickFiles ==
    {OleFile(A_JWS, <<>>,
             Container(<<[path |-> <<n[1]>>, kind |-> k, data |-> d[1], fault |-> FALSE],
                         Stream(n[2], d[2])>>)) :
        n \in {q \in PickNames \X PickNames : q[1] # q[2]},
        k \in {"stream", "storage"},
        d \in {One \o Two, One \o Two \o Zero} \X {Two \o One, Two \o One \o NaN}}

\* file paths for the routing: dat, A.TXT, a.b/c, b.csv.jws
DAT == <<100, 97, 116>>
A_TXT_UPPER == <<65, 46, 84, 88, 84>>
DIR_C == <<97, 46, 98, 47, 99>>
CSV_JWS == <<98, 46, 99, 115, 118, 46, 106, 119, 115>>

\* a sample of n bytes of which the first k are text characters
Sample(k, n) == [i \in 1..n |-> IF i <= k THEN 65 ELSE 0]

\* contents for the routing: text and binary samples at and around 0.7,
\* samples cut at 1024 bytes, and a paired container
RouteFiles ==
    {PlainFile(p, b) :
        p \in {DAT, A_TXT_UPPER, DIR_C, CSV_JWS, A_JWS},
        b \in {<<>>, <<49, 9, 50, 10>>, Sample(7, 10), Sample(8, 10), Sample(6, 10),
               Sample(716, SampleSize) \o JoinLines(<<<<49, 9, 50>>, <<49, 9, 50>>>>),
               Sample(717, SampleSize) \o JoinLines(<<<<49, 9, 50>>>>)}}
    \cup
    {OleFile(p, <<>>, Container(<<Stream("X-Data", One), Stream("Y-Data", Two)>>)) :
        p \in {DAT, A_TXT_UPPER, DIR_C, CSV_JWS, A_JWS}}
    \cup
    {[path |-> p, readable |-> FALSE, bytes |-> <<>>, ole |-> NoOle] : p \in {DAT, DIR_C}}

\* containers whose streams are missing, are storages, or cannot be read
OddFiles ==
    {OleFile(p, t, c) :
        p \in {A_JWS, A_TXT}, t \in OleTails,
        c \in {Container(<<>>),
               [isOle |-> TRUE, corrupt |-> TRUE, entries |-> <<>>],
               Container(<<[path |-> <<"Data">>, kind |-> "storage", data |-> <<>>, fault |-> FALSE],
                           [path |-> <<"Data", "Sub">>, kind |-> "stream", data |-> One \o Two, fault |-> FALSE]>>),
               Container(<<[Stream("X-Data", One) EXCEPT !.fault = TRUE], Stream("Y-Data", One)>>),
               Container(<<[Stream("Y-Data", One) EXCEPT !.fault = TRUE]>>),
               Container(<<Stream("Y-Data", One \o Two),
                           [Stream("Header", <<>>) EXCEPT !.fault = TRUE]>>),
               Container(<<[Stream("Result", One \o Two) EXCEPT !.fault = TRUE]>>),
               Container(<<Stream("x-data", One \o Two), Stream("y-data", Two \o One)>>)}}
    \cup {Unreadable}

\* containers with one metadata stream next to the data
MetaFiles ==
    {OleFile(A_JWS, <<>>, Container(<<Stream("X-Data", One \o Two \o One),
                                      Stream("Y-Data", Two \o NaN \o One),
                                      Stream(n, JoinLines(ls))>>)) :
        n \in {"Header", "UserInfo"}, ls \in SeqsUpTo(MetaLines, 1)}
    \cup
    {OleFile(A_JWS, <<>>, Container(<<Stream("Y-Data", NaN \o One \o Two),
                                      Stream("Header", JoinLines(<<l, m>>)),
                                      Stream("BaseInfo", <<255, 254, 84, 0, 73, 0, 84, 0, 76, 0,
                                                           69, 0, 9, 0, 102, 138>>)>>)) :
        l \in MetaLines, m \in MetaLines}

Files ==
    TextFiles \cup {TestTextFile} \cup TestJwsFiles \cup BinaryFiles \cup PairedFiles \cup ImpliedFiles
    \cup GenericFiles \cup PickFiles \cup RouteFiles \cup OddFiles \cup MetaFiles

\* a few files of each kind, converted in every environment
FewFiles ==
    {PlainFile(A_TXT, <<>>),
     PlainFile(A_TXT, JoinLines(<<<<35, 32, 99>>>>)),
     PlainFile(A_TXT, JoinLines(<<<<49, 9, 50>>>>)),
     PlainFile(U_JWS, JoinLines(<<<<49, 9, 50>>>>)),
     PlainFile(S_JWS, JoinLines(<<<<49, 9, 50>>>>)),
     PlainFile(A_JWS, <<0, 255, 0>>),
     create_test_jws_file(1),
     Unreadable,
     OleFile(A_JWS, <<>>, Container(<<Stream("X-Data", One), Stream("Y-Data", Two)>>)),
     OleFile(A_JWS, <<>>, Container(<<Stream("Y-Data", One \o Two)>>)),
     OleFile(A_JWS, <<>>, Container(<<Stream("Data", One \o Two)>>)),
     OleFile(A_JWS, <<>>, Container(<<Stream("Data", <<>>)>>)),
     OleFile(A_JWS, <<>>, Container(<<Stream("X-Data", One), Stream("Y-Data", Two),
            Stream("BaseInfo", <<255, 254, 84, 0, 73, 0, 84, 0, 76, 0, 69, 0, 9, 0, 102, 138>>)>>))}

OldFile == [exists |-> TRUE, lines |-> <<XYDataLine>>]

EnvOk == [olefile |-> TRUE, outDir |-> TRUE, encoding |-> "utf-8", before |-> NoFile]

Envs ==
    [olefile : BOOLEAN, outDir : BOOLEAN, encoding : {"utf-8", "cp1252"},
     before : {NoFile, OldFile}]

\* the window after __init__: no file selected, no batch running
GuiIdle ==
    /\ selected_files = <<>>
    /\ convert_button = "normal"
    /\ ui = [op |-> "idle", todo |-> <<>>]
    /\ wpc = "none"
    /\ iter_index = 0
    /\ input_file = 0
    /\ total_files = 0
    /\ successful_conversions = 0
    /\ failed_conversions = 0
    /\ batch = <<>>
    /\ calls = <<>>

\* the entry of convert_to_txt
ConverterStart ==
    /\ pc = "start"
    /\ inTry = FALSE
    /\ textRuns = 0
    /\ textFails = 0
    /\ oleFailed = FALSE
    /\ mode = "none"
    /\ candidate = <<>>
    /\ readResult = NoRead
    /\ data_points = <<>>
    /\ header = EmptyHeader
    /\ out = env.before
    /\ result = NoResult

Init ==
    /\ \/ file \in Files /\ env = EnvOk
       \/ file \in FewFiles /\ env \in Envs
    /\ ConverterStart
    /\ GuiIdle

Spec == Init /\ [][Next]_vars

(***************************************************************************)
(* JascoConverterGUI: the file list, the Convert button and the worker     *)
(* thread of convert_files.  The main thread runs one handler at a time;   *)
(* the worker runs between any two steps of it.  A call of convert_to_txt  *)
(* is one step that returns success or failure.                            *)
(***************************************************************************)
\* the files the file dialog offers
GuiFiles == 1..MaxFiles

\* what askopenfilenames returns: at most two files, none twice
Picked == {fs \in SeqsUpTo(GuiFiles, 2) : Len(fs) = 2 => fs[1] # fs[2]}

\* the indices of S from the highest to the lowest
Reversed(S) ==
    LET n == Cardinality(S) IN
    [k \in 1..n |-> CHOOSE x \in S : Cardinality({y \in S : y > x}) = k - 1]

UiIdle == [op |-> "idle", todo |-> <<>>]

\* add_files, lines 361-364: the dialog returns
add_files ==
    /\ ui = UiIdle
    /\ \E files \in Picked :
          ui' = IF files = <<>> THEN UiIdle ELSE [op |-> "add", todo |-> files]
    /\ UNCHANGED <<selected_files, convert_button, wpc, iter_index, input_file, total_files,
                   successful_conversions, failed_conversions, batch, calls>>
    /\ UNCHANGED convVars

\* add_files, lines 365-368: one turn of the loop
add_files_loop ==
    /\ ui.op = "add"
    /\ LET f == Head(ui.todo) IN
       selected_files' = IF \E k \in 1..Len(selected_files) : selected_files[k] = f
                         THEN selected_files ELSE Append(selected_files, f)
    /\ ui' = IF Tail(ui.todo) = <<>> THEN UiIdle ELSE [ui EXCEPT !.todo = Tail(ui.todo)]
    /\ UNCHANGED <<convert_button, wpc, iter_index, input_file, total_files,
                   successful_conversions, failed_conversions, batch, calls>>
    /\ UNCHANGED convVars

\* remove_selected, lines 378-381: the selection of the list box
remove_selected ==
    /\ ui = UiIdle
    /\ \E selection \in SUBSET (1..Len(selected_files)) :
          /\ selection # {}
          /\ ui' = [op |-> "remove", todo |-> Reversed(selection)]
    /\ UNCHANGED <<selected_files, convert_button, wpc, iter_index, input_file, total_files,
                   successful_conversions, failed_conversions, batch, calls>>
    /\ UNCHANGED convVars

\* remove_selected, lines 384-386: one turn of the loop
remove_selected_loop ==
    /\ ui.op = "remove"
    /\ LET index == Head(ui.todo) IN
       selected_files' = SubSeq(selected_files, 1, index - 1)
                         \o SubSeq(selected_files, index + 1, Len(selected_files))
    /\ ui' = IF Tail(ui.todo) = <<>> THEN UiIdle ELSE [ui EXCEPT !.todo = Tail(ui.todo)]
    /\ UNCHANGED <<convert_button, wpc, iter_index, input_file, total_files,
                   successful_conversions, failed_conversions, batch, calls>>
    /\ UNCHANGED convVars

\* clear_all, lines 390-394
clear_all ==
    /\ ui = UiIdle
    /\ selected_files' = <<>>
    /\ UNCHANGED <<convert_button, ui, wpc, iter_index, input_file, total_files,
                   successful_conversions, failed_conversions, batch, calls>>
    /\ UNCHANGED convVars

\* start_conversion, lines 413-429, with a valid output directory
start_conversion ==
    /\ ui = UiIdle
    /\ convert_button = "normal"
    /\ selected_files # <<>>
    /\ convert_button' = "disabled"
    /\ wpc' = "start"
    /\ batch' = selected_files
    /\ calls' = <<>>
    /\ UNCHANGED <<selected_files, ui, iter_index, input_file, total_files,
                   successful_conversions, failed_conversions>>
    /\ UNCHANGED convVars

\* convert_files, lines 433-440: the counters and the iterator
convert_files ==
    /\ wpc = "start"
    /\ total_files' = Len(selected_files)
    /\ successful_conversions' = 0
    /\ failed_conversions' = 0
    /\ iter_index' = 0
    /\ wpc' = "loop"
    /\ UNCHANGED <<selected_files, convert_button, ui, input_file, batch, calls>>
    /\ UNCHANGED convVars

\* line 440: the list iterator gives the next file of selected_files, or ends
convert_files_next ==
    /\ wpc = "loop"
    /\ IF iter_index < Len(selected_files)
       THEN input_file' = selected_files[iter_index + 1] /\ iter_index' = iter_index + 1 /\ wpc' = "convert"
       ELSE wpc' = "finish" /\ UNCHANGED <<input_file, iter_index>>
    /\ UNCHANGED <<selected_files, convert_button, ui, total_files,
                   successful_conversions, failed_conversions, batch, calls>>
    /\ UNCHANGED convVars

\* lines 451-458: the call of convert_to_txt and the tally
convert_files_call ==
    /\ wpc = "convert"
    /\ calls' = Append(calls, input_file)
    /\ \E success \in BOOLEAN :
          IF success
          THEN successful_conversions' = successful_conversions + 1
               /\ UNCHANGED failed_conversions
          ELSE failed_conversions' = failed_conversions + 1
               /\ UNCHANGED successful_conversions
    /\ wpc' = "loop"
    /\ UNCHANGED <<selected_files, convert_button, ui, iter_index, input_file, total_files, batch>>
    /\ UNCHANGED convVars

\* lines 461-479: the completion message; the button is enabled again and
\* the thread ends, its locals with it
convert_files_finally ==
    /\ wpc = "finish"
    /\ convert_button' = "normal"
    /\ wpc' = "none"
    /\ iter_index' = 0
    /\ input_file' = 0
    /\ total_files' = 0
    /\ successful_conversions' = 0
    /\ failed_conversions' = 0
    /\ batch' = <<>>
    /\ calls' = <<>>
    /\ UNCHANGED <<selected_files, ui>>
    /\ UNCHANGED convVars

GuiInit ==
    /\ file = PlainFile(A_TXT, <<>>) /\ env = EnvOk
    /\ ConverterStart
    /\ GuiIdle

GuiNext ==
    \/ add_files
    \/ add_files_loop
    \/ remove_selected
    \/ remove_selected_loop
    \/ clear_all
    \/ start_conversion
    \/ convert_files
    \/ convert_files_next
    \/ convert_files_call
    \/ convert_files_finally

GuiSpec == GuiInit /\ [][GuiNext]_vars

(***************************************************************************)
(* Properties.                                                             *)
(***************************************************************************)
Min(S) == CHOOSE x \in S : \A y \in S : x <= y
Max(S) == CHOOSE x \in S : \A y \in S : x >= y

\* what the text parser makes of the file f, as an outcome of read_jws_file
TextOutcome(f) ==
    LET r == parse_as_text(f) IN
    IF r.ok THEN ReadReturned(r.points) ELSE ReadRaised(r.err)

\* the i-th little-endian float32 of the bytes d
LE32(d, i) ==
    <<"f32", d[4 * i - 3] + 256 * d[4 * i - 2] + 65536 * d[4 * i - 1]
             + 16777216 * (IF d[4 * i] >= 128 THEN d[4 * i] - 256 ELSE d[4 * i])>>

\* the root entry of the container of the file that is called name
EntryOf(name) ==
    file.ole.entries[CHOOSE i \in 1..Len(file.ole.entries) :
        /\ Len(file.ole.entries[i].path) = 1
        /\ FoldName(file.ole.entries[i].path[1]) = FoldName(name)]

HasStream(name) ==
    /\ \E i \in 1..Len(file.ole.entries) :
          /\ Len(file.ole.entries[i].path) = 1
          /\ FoldName(file.ole.entries[i].path[1]) = FoldName(name)
    /\ EntryOf(name).kind = "stream"
    /\ ~EntryOf(name).fault

HasEntry(name) ==
    \E i \in 1..Len(file.ole.entries) :
        /\ Len(file.ole.entries[i].path) = 1
        /\ FoldName(file.ole.entries[i].path[1]) = FoldName(name)

\* C1: on the container path, when the signature check fails or the
\* container code raises, read_jws_file runs the text parser on the same
\* file and its outcome, never the container error, is what the caller sees.
C1_ContainerErrorFallsBackToText ==
    (oleFailed /\ readResult.done) =>
        (textRuns >= 1 /\ readResult = TextOutcome(file))

\* a container whose generic extraction raised and whose text was parsed
C1_Witness ==
    /\ oleFailed /\ readResult.done /\ readResult.ok
    /\ file.ole.isOle /\ mode = "generic" /\ textRuns = 1

\* C2: every (False, message) returned by convert_to_txt is the failure of
\* the text parser, which was run on the input file and failed before the
\* failure was returned.
C2_OnlyTextFailureIsFinal ==
    (pc = "done" /\ ~result.success) =>
        (textRuns >= 1 /\ textFails >= 1 /\ result.detail = parse_as_text(file).err)

\* C3: the text parser returns, in file order, one point per line that is
\* non-empty after trimming, does not begin with '#' or '%', and whose
\* first two fields under the line's delimiter (tab, else comma, else runs
\* of whitespace) both parse as numbers; it raises when there is no such
\* line.
C3_Trim(l) ==
    LET ns == {i \in 1..Len(l) : ~IsSpace(l[i])} IN
    IF ns = {} THEN <<>> ELSE SubSeq(l, Min(ns), Max(ns))

\* the first two fields of the trimmed line t, <<>> when there are fewer
C3_Fields(t) ==
    LET d == IF \E i \in 1..Len(t) : t[i] = 9 THEN 9
             ELSE IF \E i \in 1..Len(t) : t[i] = 44 THEN 44 ELSE 0
    IN IF d # 0
       THEN LET P  == {i \in 1..Len(t) : t[i] = d}
                i1 == Min(P)
                R  == {i \in P : i > i1}
                i2 == IF R = {} THEN Len(t) + 1 ELSE Min(R)
            IN <<SubSeq(t, 1, i1 - 1), SubSeq(t, i1 + 1, i2 - 1)>>
       ELSE LET W == {i \in 1..Len(t) : IsSpace(t[i])} IN
            IF W = {} THEN <<>>
            ELSE LET i1 == Min(W)
                     j  == Min({i \in (i1 + 1)..Len(t) : ~IsSpace(t[i])})
                     R  == {i \in W : i > j}
                     k  == IF R = {} THEN Len(t) + 1 ELSE Min(R)
                 IN <<SubSeq(t, 1, i1 - 1), SubSeq(t, j, k - 1)>>

C3_Qualifies(l) ==
    LET t == C3_Trim(l)
        f == C3_Fields(t)
    IN /\ t # <<>>
       /\ t[1] \notin {35, 37}
       /\ f # <<>>
       /\ ParseFloat(f[1]).ok /\ ParseFloat(f[2]).ok

C3_Point(l) ==
    LET f == C3_Fields(C3_Trim(l)) IN <<ParseFloat(f[1]).val, ParseFloat(f[2]).val>>

C3_Expected(lines) ==
    LET Q == {i \in 1..Len(lines) : C3_Qualifies(lines[i])}
        nth(k) == CHOOSE i \in Q : Cardinality({j \in Q : j < i}) = k - 1
    IN [k \in 1..Cardinality(Q) |-> C3_Point(lines[nth(k)])]

C3_FileLines == ReadLines(DecodeIgnore(file.bytes))

C3_TextParserPoints ==
    (file.readable /\ readResult.done /\ textRuns >= 1) =>
        LET e == C3_Expected(C3_FileLines) IN
        IF e = <<>> THEN ~readResult.ok
        ELSE readResult.ok /\ readResult.points = e

\* a two-line file whose first line is skipped and whose second is a point
C3_Witness ==
    /\ file.readable /\ readResult.done /\ readResult.ok /\ textRuns = 1
    /\ Len(C3_FileLines) = 2
    /\ ~C3_Qualifies(C3_FileLines[1])
    /\ C3_Trim(C3_FileLines[1]) # <<>>
    /\ Len(readResult.points) = 1

\* C4: when convert_to_txt returns success = False the output path has
\* been neither created nor modified, and the message is not empty.
C4_NoOutputOnFailure ==
    (pc = "done" /\ ~result.success) =>
        (out = env.before /\ (result.prefix # "" \/ result.detail # ""))

\* C5: a successful conversion of N points writes 18 header lines, one per
\* field of the fixed set in the fixed order, empty values included, then
\* XYDATA, then one data line per point in order, and reports N; the test
\* file of 2 comment lines and 20 tab-separated rows converts with N = 20.
C5_Fields ==
    <<"TITLE", "DATA TYPE", "ORIGIN", "OWNER", "DATE", "TIME",
      "SPECTROMETER/DATA SYSTEM", "LOCALE", "RESOLUTION", "DELTAX", "XUNITS",
      "YUNITS", "FIRSTX", "LASTX", "NPOINTS", "FIRSTY", "MAXY", "MINY">>

C5_OutputLayout ==
    /\ (pc = "done" /\ result.success) =>
          LET N == Len(readResult.points) IN
          /\ out.exists
          /\ Len(out.lines) = 18 + 1 + N
          /\ \A i \in 1..18 :
                out.lines[i].kind = "header" /\ out.lines[i].field = C5_Fields[i]
          /\ out.lines[19].kind = "XYDATA"
          /\ \A i \in 1..N :
                /\ out.lines[19 + i].kind = "data"
                /\ out.lines[19 + i].x = readResult.points[i][1]
                /\ out.lines[19 + i].y = readResult.points[i][2]
          /\ result.n = N
    /\ (pc = "done" /\ file = TestTextFile) => (result.success /\ result.n = 20)

\* the test file converted, with header fields whose value is empty
C5_Witness ==
    /\ pc = "done" /\ file = TestTextFile /\ result.success /\ result.n = 20
    /\ out.lines[4].value = Str(<<>>)

\* C6: FIRSTX, LASTX, NPOINTS, FIRSTY, MAXY and MINY of the header are
\* computed from the data points (first x, last x, count, first y, a y that
\* no y exceeds, a y that no y is below), whatever the metadata streams of
\* the container give for these names.
C6_StatsFromPoints ==
    (pc = "write" \/ (pc = "done" /\ result.success)) =>
        LET pts == readResult.points
            n   == Len(pts)
            ys  == {pts[i][2] : i \in 1..n}
        IN /\ n >= 1
           /\ header["FIRSTX"] = Fmt("10.4f", pts[1][1])
           /\ header["LASTX"] = Fmt("10.4f", pts[n][1])
           /\ header["NPOINTS"] = Fmt("7d", <<"int", n>>)
           /\ header["FIRSTY"] = Fmt("10.5f", pts[1][2])
           /\ header["MAXY"].fmt = "10.5f"
           /\ header["MAXY"].num \in ys
           /\ \A y \in ys : ~Lt(header["MAXY"].num, y)
           /\ header["MINY"].fmt = "10.5f"
           /\ header["MINY"].num \in ys
           /\ \A y \in ys : ~Lt(y, header["MINY"].num)
           /\ pc = "done" =>
                 \A i \in 13..18 : out.lines[i].value = header[C5_Fields[i]]

\* a conversion of a container whose metadata gives a value for MAXY
C6_Witness ==
    /\ pc = "done" /\ result.success
    /\ Truthy(Metadata(file, env, EmptyHeader)["MAXY"])
    /\ Truthy(Metadata(file, env, EmptyHeader)["TITLE"])

\* C7: in the generic mode a candidate of P pairs with more than 0.2 * P
\* NaN pairs or more than 0.5 * P pairs equal to (0, 0) is not returned, the
\* outcome of the text parser is; otherwise, the fractions 0.2 and 0.5
\* included, the P pairs are returned in stream order.  The candidate of
\* 100 pairs with 25 NaN pairs goes to the text parser.
C7_PlausibilityGate ==
    /\ (mode = "generic" /\ ~oleFailed /\ readResult.done /\ Len(file.ole.entries) = 1) =>
          LET d    == file.ole.entries[1].data
              P    == Len(d) \div 8
              pair(i) == <<LE32(d, 2 * i - 1), LE32(d, 2 * i)>>
              nan  == Cardinality({i \in 1..P : IsNaN(pair(i)[1]) \/ IsNaN(pair(i)[2])})
              zero == Cardinality({i \in 1..P : IsZero(pair(i)[1]) /\ IsZero(pair(i)[2])})
          IN IF 10 * nan > 2 * P \/ 10 * zero > 5 * P
             THEN textRuns >= 1 /\ readResult = TextOutcome(file)
             ELSE /\ textRuns = 0
                  /\ readResult.ok
                  /\ Len(readResult.points) = P
                  /\ \A i \in 1..P : readResult.points[i] = pair(i)
    /\ (readResult.done /\ file.ole.isOle
        /\ file.ole.entries = <<Stream("Data", Gate100)>> /\ Ext(file.path) \notin TextExts) =>
          (textRuns >= 1 /\ readResult = TextOutcome(file))

\* the 100-pair candidate with 25 NaN pairs, sent to the text parser
C7_Witness ==
    /\ mode = "generic" /\ ~oleFailed /\ readResult.done
    /\ Len(candidate) = 100
    /\ textRuns >= 1

\* C8: with an X-Data stream of a values and a Y-Data stream of b values,
\* min(a, b) > 0, read_jws_file returns min(a, b) points, the i-th being the
\* i-th X value with the i-th Y value, and neither the gate nor the text
\* parser runs.
C8_PairedStreams ==
    (mode = "paired" /\ readResult.done /\ HasStream("X-Data") /\ HasStream("Y-Data")) =>
        LET x == EntryOf("X-Data").data
            y == EntryOf("Y-Data").data
            a == Len(x) \div 4
            b == Len(y) \div 4
            m == IF a <= b THEN a ELSE b
        IN m > 0 =>
              /\ readResult.ok
              /\ textRuns = 0
              /\ Len(readResult.points) = m
              /\ \A i \in 1..m : readResult.points[i] = <<LE32(x, i), LE32(y, i)>>

\* two X values and a stray byte against one Y value: one point
C8_Witness ==
    /\ mode = "paired" /\ readResult.done /\ readResult.ok
    /\ HasStream("X-Data") /\ HasStream("Y-Data")
    /\ Len(EntryOf("X-Data").data) = 9
    /\ Len(EntryOf("Y-Data").data) = 4
    /\ Len(readResult.points) = 1

\* C9: with a Y-Data stream of K >= 1 values and no X-Data, read_jws_file
\* returns K points, the i-th (from 0) being (i * deltaX, i-th Y value);
\* deltaX is 1 without a Header stream and 2.5 for the header DELTAX 2.5.
C9_Header25 == <<68, 69, 76, 84, 65, 88, 9, 50, 46, 53, 10>>

C9_ImpliedX ==
    (mode = "implied" /\ readResult.done /\ HasStream("Y-Data")) =>
        LET y == EntryOf("Y-Data").data
            K == Len(y) \div 4
            dx == DeltaXOf(file.ole)[2]
        IN K >= 1 =>
              /\ readResult.ok
              /\ textRuns = 0
              /\ Len(readResult.points) = K
              /\ \A i \in 1..K :
                    readResult.points[i] = <<<<"dec", (i - 1) * dx>>, LE32(y, i)>>
              /\ ~HasEntry("Header") => dx = Scale
              /\ (HasStream("Header") /\ EntryOf("Header").data = C9_Header25)
                    => dx = 25000

\* three Y values under DELTAX 2.5: the third X is 5.0
C9_Witness ==
    /\ mode = "implied" /\ readResult.done /\ readResult.ok
    /\ HasStream("Header") /\ EntryOf("Header").data = C9_Header25
    /\ Len(readResult.points) = 3
    /\ readResult.points[3][1] = <<"dec", 50000>>

\* the lines of the Header stream of the file
C10_Lines == SplitLines(DecodeIgnore(EntryOf("Header").data))

\* the deltaX the implied-X mode used: the X of its second point
C10_Used == readResult.points[2][1][2]

C10_Case ==
    /\ mode = "implied" /\ readResult.done /\ readResult.ok
    /\ Len(readResult.points) >= 2
    /\ HasStream("Header")

\* C10 as stated: deltaX is 1.0 unless a line of the Header stream has a
\* first tab-separated field that, trimmed and upper-cased, equals DELTAX;
\* then deltaX is the number in the second tab-separated field of such a
\* line, or 1.0 when that field is not a number.
C10_FirstFieldEqualsDeltaX ==
    C10_Case =>
        LET field(i, k) == SplitOn(C10_Lines[i], 9)[k]
            nf(i) == Len(SplitOn(C10_Lines[i], 9))
            M == {i \in 1..Len(C10_Lines) : Upper(C3_Trim(field(i, 1))) = DELTAX}
        IN IF M = {} THEN C10_Used = Scale
           ELSE \E i \in M :
                   IF nf(i) >= 2 /\ ParseFloat(field(i, 2)).ok
                   THEN C10_Used = ParseFloat(field(i, 2)).val[2]
                   ELSE C10_Used = Scale

\* C10 amended: deltaX is 1.0 unless a line of the Header stream, trimmed
\* and upper-cased, starts with DELTAX and has exactly two tab-separated
\* fields; the first such line decides: deltaX is the number in its second
\* field, or 1.0 when that field is not a number.
C10_FirstPrefixLineWithTwoFields ==
    C10_Case =>
        LET tabs(i) == {j \in 1..Len(C10_Lines[i]) : C10_Lines[i][j] = 9}
            Q == {i \in 1..Len(C10_Lines) :
                     /\ Cardinality(tabs(i)) = 1
                     /\ LET t == Upper(C3_Trim(C10_Lines[i])) IN
                        Len(t) >= 6 /\ SubSeq(t, 1, 6) = DELTAX}
        IN IF Q = {} THEN C10_Used = Scale
           ELSE LET i == Min(Q)
                    j == CHOOSE j \in tabs(i) : TRUE
                    second == SubSeq(C10_Lines[i], j + 1, Len(C10_Lines[i]))
                IN IF ParseFloat(second).ok
                   THEN C10_Used = ParseFloat(second).val[2]
                   ELSE C10_Used = Scale

\* the header DELTAXY 3, which sets deltaX to 3
C10_Witness ==
    /\ C10_Case
    /\ C10_Lines = <<<<68, 69, 76, 84, 65, 88, 89, 9, 51>>>>
    /\ C10_Used = 30000

\* C11: the file create_test_jws_file makes (a 512-byte header, then
\* num_points float32 pairs, not a compound container) is converted
\* successfully for every num_points >= 1: convert_to_txt returns success
\* and the output file is written.
C11_TestJwsFileConverts ==
    (pc = "done" /\ file \in TestJwsFiles /\ env = EnvOk) =>
        (result.success /\ out.exists)

\* the fixed order of the names the generic mode looks for
C12_Order ==
    <<"Data", "DATA", "SpectralData", "Spectra", "SpecData", "Measurement",
      "Result", "ResultData">>

\* the root entries of the file's container that are called name
C12_Named(name) ==
    {i \in 1..Len(file.ole.entries) :
        /\ Len(file.ole.entries[i].path) = 1
        /\ FoldName(file.ole.entries[i].path[1]) = FoldName(name)}

\* the entry the generic mode is to decode, 0 when there is none: the first
\* name of the order that exists, else the first root stream of the listing
C12_Chosen ==
    LET C == {k \in 1..Len(C12_Order) : C12_Named(C12_Order[k]) # {}}
        S == {i \in 1..Len(file.ole.entries) :
                /\ Len(file.ole.entries[i].path) = 1
                /\ file.ole.entries[i].kind = "stream"}
    IN IF C # {} THEN Min(C12_Named(C12_Order[Min(C)]))
       ELSE IF S # {} THEN Min(S)
       ELSE 0

\* C12: in the generic mode the stream decoded is the first name of the
\* fixed order that exists in the container, else the first single-segment
\* stream of the listing; with none the extraction fails; the stream is
\* decoded as pairs of 8 bytes, and the extraction fails, returning no
\* binary points, when its length is not a multiple of 8.
C12_GenericSelection ==
    (mode = "generic" /\ readResult.done) =>
        LET i == C12_Chosen
            e == file.ole.entries[i]
            P == Len(e.data) \div 8
        IN /\ i = 0 => (oleFailed /\ candidate = <<>> /\ readResult = TextOutcome(file))
           /\ (i # 0 /\ e.kind = "stream" /\ ~e.fault) =>
                 IF Len(e.data) % 8 # 0
                 THEN oleFailed /\ candidate = <<>> /\ readResult = TextOutcome(file)
                 ELSE /\ ~oleFailed
                      /\ Len(candidate) = P
                      /\ \A k \in 1..P :
                            candidate[k] = <<LE32(e.data, 2 * k - 1), LE32(e.data, 2 * k)>>

\* ResultData listed before DATA: the pairs of DATA are returned
C12_Witness ==
    /\ mode = "generic" /\ readResult.done /\ readResult.ok /\ ~oleFailed
    /\ Len(file.ole.entries) = 2
    /\ file.ole.entries[1].path = <<"ResultData">>
    /\ file.ole.entries[1].kind = "stream"
    /\ file.ole.entries[2].path = <<"DATA">>
    /\ Len(file.ole.entries[1].data) = 8
    /\ Len(file.ole.entries[2].data) = 8
    /\ readResult.points = <<<<LE32(Two \o One, 1), LE32(Two \o One, 2)>>>>

\* the extension of the file name of path: the part after the last dot of
\* the name, in lower case; <<>> when the name has no dot
C13_NameExt(path) ==
    LET S    == {i \in 1..Len(path) : path[i] = 47}
        name == IF S = {} THEN path ELSE SubSeq(path, Max(S) + 1, Len(path))
        D    == {i \in 1..Len(name) : name[i] = 46}
    IN IF D = {} THEN <<>>
       ELSE [i \in 1..(Len(name) - Max(D)) |->
                LET c == name[Max(D) + i] IN IF c \in 65..90 THEN c + 32 ELSE c]

\* txt, csv, dat, asc
C13_TextExts == {<<116, 120, 116>>, <<99, 115, 118>>, <<100, 97, 116>>, <<97, 115, 99>>}

\* the classifier reports text: the sample of at most 1024 bytes can be
\* read, is not empty, and more than 0.7 of it is in 32..126 or {9, 10, 13}
C13_ClassifierText ==
    LET n == IF Len(file.bytes) < 1024 THEN Len(file.bytes) ELSE 1024
        k == Cardinality({i \in 1..n : file.bytes[i] \in (32..126) \cup {9, 10, 13}})
    IN file.readable /\ n > 0 /\ 10 * k > 7 * n

\* C13: read_jws_file goes to the text parser without consulting the
\* container reader exactly when the extension of the file name is txt,
\* csv, dat or asc (case-insensitively), or the classifier reports text; a
\* name without extension is routed by the classifier alone.
C13_DetectFormat ==
    LET text == C13_NameExt(file.path) \in C13_TextExts \/ C13_ClassifierText IN
    /\ (pc = "text" /\ ~oleFailed /\ mode = "none") => text
    /\ pc = "import" => ~text

\* C14: when a batch completes, convert_to_txt has been called exactly once
\* for each file that was selected when the batch started, in list order,
\* and successful_conversions + failed_conversions = total_files, whatever
\* Add Files, Remove Selected and Clear All did during the batch.
C14_BatchConvertsEachFileOnce ==
    wpc = "finish" =>
        /\ calls = batch
        /\ successful_conversions + failed_conversions = total_files

=============================================================================
